---- MODULE Spec2Model ----
(***************************************************************************)
(* Roblox bio + connections fetcher (index.js).                            *)
(*                                                                         *)
(* Strings are sequences of one-character strings, so that the regular     *)
(* expressions of the program can be run on them position by position.     *)
(* The JavaScript value undefined is the one-element tuple Undefined,      *)
(* which is no string of the model.                                        *)
(***************************************************************************)
EXTENDS Integers, Sequences, FiniteSets, TLC

VARIABLES
    text,        \* argument of the pure function under check (a string)
    result,      \* what the function returned
    phase,       \* "input" before the call, "returned" after it
    origin,      \* how the argument was put together
    WEBHOOK_URL,     \* configuration: TRUE when the variable is set
    ROBLOX_COOKIE,   \* configuration: TRUE when the variable is set
    req,         \* the request being handled: method and its three parameters
    pc,          \* position of the handler
    loc,         \* the handler's local variables
    calls,       \* outbound calls of this request, in the order made
    responses,   \* HTTP responses sent for this request, in the order sent
    served       \* number of requests accepted so far

vars == <<text, result, phase, origin, WEBHOOK_URL, ROBLOX_COOKIE, req, pc, loc,
          calls, responses, served>>

pureVars == <<text, result, phase, origin>>
flowVars == <<WEBHOOK_URL, ROBLOX_COOKIE, req, pc, loc, calls, responses, served>>

-----------------------------------------------------------------------------
(* Characters *)

Undefined == <<"undefined">>

Digits == {"0", "1", "2", "3", "4", "5", "6", "7", "8", "9"}

LowerLetters ==
    {"a", "b", "c", "d", "e", "f", "g", "h", "i", "j", "k", "l", "m",
     "n", "o", "p", "q", "r", "s", "t", "u", "v", "w", "x", "y", "z"}

UpperLetters ==
    {"A", "B", "C", "D", "E", "F", "G", "H", "I", "J", "K", "L", "M",
     "N", "O", "P", "Q", "R", "S", "T", "U", "V", "W", "X", "Y", "Z"}

LowerOf ==
    ("A" :> "a") @@ ("B" :> "b") @@ ("C" :> "c") @@ ("D" :> "d") @@
    ("E" :> "e") @@ ("F" :> "f") @@ ("G" :> "g") @@ ("H" :> "h") @@
    ("I" :> "i") @@ ("J" :> "j") @@ ("K" :> "k") @@ ("L" :> "l") @@
    ("M" :> "m") @@ ("N" :> "n") @@ ("O" :> "o") @@ ("P" :> "p") @@
    ("Q" :> "q") @@ ("R" :> "r") @@ ("S" :> "s") @@ ("T" :> "t") @@
    ("U" :> "u") @@ ("V" :> "v") @@ ("W" :> "w") @@ ("X" :> "x") @@
    ("Y" :> "y") @@ ("Z" :> "z")

\* String.prototype.toLowerCase on one character
LowerChar(c) == IF c \in UpperLetters THEN LowerOf[c] ELSE c

\* String.prototype.toLowerCase
ToLowerCase(s) == [i \in 1..Len(s) |-> LowerChar(s[i])]

\* Two pattern characters match under the i flag when they agree up to case.
SameCharI(a, b) == LowerChar(a) = LowerChar(b)

\* \w
WordChars == LowerLetters \cup UpperLetters \cup Digits \cup {"_"}
IsWordChar(c) == c \in WordChars

\* \s (the model's texts hold the space and the line feed)
SpaceChars == {" ", "\n"}

\* \b before position p (1-based; p = Len(s) + 1 is the end of the input)
WordBoundary(s, p) ==
    LET before == p > 1 /\ IsWordChar(s[p - 1])
        after == p <= Len(s) /\ IsWordChar(s[p])
    IN  before # after

\* the literal lit matches at position p, ignoring case
LiteralAt(s, p, lit) ==
    /\ p + Len(lit) - 1 <= Len(s)
    /\ \A k \in 1..Len(lit) : SameCharI(s[p + k - 1], lit[k])

\* length of the longest run of characters of cls starting at position p
RECURSIVE RunLen(_, _, _)
RunLen(s, p, cls) ==
    IF p <= Len(s) /\ s[p] \in cls THEN 1 + RunLen(s, p + 1, cls) ELSE 0

\* s.slice(p - 1, p - 1 + n)
Slice(s, p, n) == SubSeq(s, p, p + n - 1)

\* the result of a failed match (null), and of a successful one: the index of
\* the match (1-based), the whole match m[0] and the first group m[1]
NoMatch == [ok |-> FALSE, index |-> 0, m0 |-> <<>>, m1 |-> <<>>]
Matched(i, whole, group) == [ok |-> TRUE, index |-> i, m0 |-> whole, m1 |-> group]

Range(f) == {f[x] : x \in DOMAIN f}

RECURSIVE Concat(_)
Concat(ss) == IF ss = <<>> THEN <<>> ELSE Head(ss) \o Concat(Tail(ss))

-----------------------------------------------------------------------------
(* parseRolimonsTarget *)

PlayerMarker == <<"/", "p", "l", "a", "y", "e", "r", "/">>

IdChars == Digits
NameChars == LowerLetters \cup UpperLetters \cup Digits \cup {"_"}

\* (?:\/|$) at position p
SlashOrEnd(s, p) == p = Len(s) + 1 \/ (p <= Len(s) /\ s[p] = "/")

\* (cls+)(?:\/|$) at position p with n characters taken by the group: the
\* quantifier is greedy and gives characters back one at a time
RECURSIVE SegmentTail(_, _, _)
SegmentTail(s, p, n) ==
    IF n < 1 THEN 0
    ELSE IF SlashOrEnd(s, p + n) THEN n
    ELSE SegmentTail(s, p, n - 1)

\* /\/player\/(cls+)(?:\/|$)/i tried at the positions i, i + 1, ... in turn
RECURSIVE PlayerMatchFrom(_, _, _)
PlayerMatchFrom(s, i, cls) ==
    IF i > Len(s) THEN NoMatch
    ELSE IF LiteralAt(s, i, PlayerMarker)
         THEN LET p == i + Len(PlayerMarker)
                  n == SegmentTail(s, p, RunLen(s, p, cls))
              IN  IF n >= 1
                  THEN Matched(i, Slice(s, i, Len(PlayerMarker) + n
                                   + (IF p + n <= Len(s) THEN 1 ELSE 0)),
                               Slice(s, p, n))
                  ELSE PlayerMatchFrom(s, i + 1, cls)
         ELSE PlayerMatchFrom(s, i + 1, cls)

\* s.match(/\/player\/(\d+)(?:\/|$)/i)
IdMatch(s) == PlayerMatchFrom(s, 1, IdChars)

\* s.match(/\/player\/([A-Za-z0-9_]+)(?:\/|$)/i)
NameMatch(s) == PlayerMatchFrom(s, 1, NameChars)

parseRolimonsTarget(s) ==
    IF IdMatch(s).ok
    THEN [userId |-> IdMatch(s).m1, username |-> Undefined]
    ELSE IF NameMatch(s).ok
    THEN [userId |-> Undefined, username |-> NameMatch(s).m1]
    ELSE [userId |-> Undefined, username |-> Undefined]

-----------------------------------------------------------------------------
(* SOCIAL_PATTERNS and URL_RE *)

MinHandleLen == 2
MaxHandleLen30 == 30
MaxHandleLen37 == 37
MaxHandleLen50 == 50
MaxHandleLen60 == 60

\* [a-z0-9._] under the i flag
HandleChars == LowerLetters \cup UpperLetters \cup Digits \cup {".", "_"}

\* one entry per pattern: the alternatives of the keyword group in the order
\* written, whether @? is part of the pattern, the class of the handle and
\* the bounds of its length
SOCIAL_PATTERNS ==
    << [name |-> "Instagram",
        alts |-> << <<"i", "g">>, <<"i", "n", "s", "t", "a">>,
                    <<"i", "n", "s", "t", "a", "g", "r", "a", "m">> >>,
        at |-> TRUE, cls |-> HandleChars,
        min |-> MinHandleLen, max |-> MaxHandleLen30],
       [name |-> "Twitter",
        alts |-> << <<"x">>, <<"t", "w", "i", "t", "t", "e", "r">>,
                    <<"t", "w", "e", "e", "t">> >>,
        at |-> TRUE, cls |-> HandleChars,
        min |-> MinHandleLen, max |-> MaxHandleLen30],
       [name |-> "Discord",
        alts |-> << <<"d", "i", "s", "c", "o", "r", "d">>, <<"d", "c">> >>,
        at |-> FALSE, cls |-> HandleChars \cup {"#"},
        min |-> MinHandleLen, max |-> MaxHandleLen37],
       [name |-> "YouTube",
        alts |-> << <<"y", "t">>, <<"y", "o", "u", "t", "u", "b", "e">> >>,
        at |-> TRUE, cls |-> HandleChars \cup {"-"},
        min |-> MinHandleLen, max |-> MaxHandleLen60],
       [name |-> "TikTok",
        alts |-> << <<"t", "t">>, <<"t", "i", "k", "t", "o", "k">> >>,
        at |-> TRUE, cls |-> HandleChars,
        min |-> MinHandleLen, max |-> MaxHandleLen30],
       [name |-> "Facebook",
        alts |-> << <<"f", "b">>, <<"f", "a", "c", "e", "b", "o", "o", "k">> >>,
        at |-> TRUE, cls |-> HandleChars,
        min |-> MinHandleLen, max |-> MaxHandleLen50],
       [name |-> "Telegram",
        alts |-> << <<"t", "g">>, <<"t", "e", "l", "e", "g", "r", "a", "m">> >>,
        at |-> TRUE, cls |-> HandleChars,
        min |-> MinHandleLen, max |-> MaxHandleLen50] >>

\* the part of a match after the keyword: where the handle starts and where
\* it ends (exclusive)
NoTail == [ok |-> FALSE, hs |-> 0, he |-> 0]

Smaller(a, b) == IF a < b THEN a ELSE b

\* ([cls]{min,max})\b at position p with n characters taken: greedy, giving
\* characters back one at a time until the word boundary holds
RECURSIVE HandleTail(_, _, _, _)
HandleTail(s, p, n, pat) ==
    IF n < pat.min THEN NoTail
    ELSE IF WordBoundary(s, p + n) THEN [ok |-> TRUE, hs |-> p, he |-> p + n]
    ELSE HandleTail(s, p, n - 1, pat)

HandleAt(s, p, pat) ==
    HandleTail(s, p, Smaller(RunLen(s, p, pat.cls), pat.max), pat)

\* @?([cls]{min,max})\b at position p: with the @ first, then without
AtTail(s, p, pat) ==
    IF pat.at /\ p <= Len(s) /\ s[p] = "@"
    THEN LET r == HandleAt(s, p + 1, pat)
         IN  IF r.ok THEN r ELSE HandleAt(s, p, pat)
    ELSE HandleAt(s, p, pat)

\* the second \s* with n characters taken, then the rest
RECURSIVE Space2Tail(_, _, _, _)
Space2Tail(s, p, n, pat) ==
    LET r == AtTail(s, p + n, pat)
    IN  IF r.ok THEN r
        ELSE IF n = 0 THEN NoTail
        ELSE Space2Tail(s, p, n - 1, pat)

\* [:\-]? at position p: with the separator first, then without
SepTail(s, p, pat) ==
    IF p <= Len(s) /\ s[p] \in {":", "-"}
    THEN LET r == Space2Tail(s, p + 1, RunLen(s, p + 1, SpaceChars), pat)
         IN  IF r.ok THEN r
             ELSE Space2Tail(s, p, RunLen(s, p, SpaceChars), pat)
    ELSE Space2Tail(s, p, RunLen(s, p, SpaceChars), pat)

\* the first \s* with n characters taken, then the rest
RECURSIVE Space1Tail(_, _, _, _)
Space1Tail(s, p, n, pat) ==
    LET r == SepTail(s, p + n, pat)
    IN  IF r.ok THEN r
        ELSE IF n = 0 THEN NoTail
        ELSE Space1Tail(s, p, n - 1, pat)

\* (?:a1|a2|...) at position i, the alternatives tried in the order written
RECURSIVE AltsFrom(_, _, _, _)
AltsFrom(s, i, k, pat) ==
    IF k > Len(pat.alts) THEN NoTail
    ELSE IF LiteralAt(s, i, pat.alts[k])
         THEN LET p == i + Len(pat.alts[k])
                  r == Space1Tail(s, p, RunLen(s, p, SpaceChars), pat)
              IN  IF r.ok THEN r ELSE AltsFrom(s, i, k + 1, pat)
         ELSE AltsFrom(s, i, k + 1, pat)

\* the whole pattern at position i
PatternAt(s, i, pat) ==
    IF WordBoundary(s, i) THEN AltsFrom(s, i, 1, pat) ELSE NoTail

\* the pattern tried at the positions i, i + 1, ... in turn
RECURSIVE SocialMatchFrom(_, _, _)
SocialMatchFrom(s, i, pat) ==
    IF i > Len(s) THEN NoMatch
    ELSE LET r == PatternAt(s, i, pat)
         IN  IF r.ok
             THEN Matched(i, SubSeq(s, i, r.he - 1), SubSeq(s, r.hs, r.he - 1))
             ELSE SocialMatchFrom(s, i + 1, pat)

\* the pattern tried at the positions i, i - 1, ... in turn
RECURSIVE SocialMatchDownFrom(_, _, _)
SocialMatchDownFrom(s, i, pat) ==
    IF i < 1 THEN NoMatch
    ELSE LET r == PatternAt(s, i, pat)
         IN  IF r.ok
             THEN Matched(i, SubSeq(s, i, r.he - 1), SubSeq(s, r.hs, r.he - 1))
             ELSE SocialMatchDownFrom(s, i - 1, pat)

SocialMatchLast(s, pat) == SocialMatchDownFrom(s, Len(s), pat)

\* text.match(re) for a pattern without the g flag: the first match
SocialMatch(s, pat) == SocialMatchFrom(s, 1, pat)

\* the loop over SOCIAL_PATTERNS from its k-th entry on
RECURSIVE FoundFrom(_, _)
FoundFrom(s, k) ==
    IF k > Len(SOCIAL_PATTERNS) THEN <<>>
    ELSE LET m == SocialMatch(s, SOCIAL_PATTERNS[k])
         IN  (IF m.ok
              THEN << [type |-> SOCIAL_PATTERNS[k].name, handle |-> m.m1] >>
              ELSE <<>>) \o FoundFrom(s, k + 1)

Http == <<"h", "t", "t", "p">>
SchemeSep == <<":", "/", "/">>

\* [^\s)]
IsUrlChar(c) == c \notin SpaceChars /\ c # ")"

RECURSIVE UrlRunLen(_, _)
UrlRunLen(s, p) ==
    IF p <= Len(s) /\ IsUrlChar(s[p]) THEN 1 + UrlRunLen(s, p + 1) ELSE 0

\* :\/\/[^\s)]+ at position q: the end of the match (exclusive), or 0
UrlTail(s, q) ==
    IF LiteralAt(s, q, SchemeSep) /\ UrlRunLen(s, q + Len(SchemeSep)) >= 1
    THEN q + Len(SchemeSep) + UrlRunLen(s, q + Len(SchemeSep))
    ELSE 0

\* \bhttps?:\/\/[^\s)]+ at position i: the end of the match (exclusive), or 0
UrlEnd(s, i) ==
    IF WordBoundary(s, i) /\ LiteralAt(s, i, Http)
    THEN LET p == i + Len(Http)
         IN  IF p <= Len(s) /\ SameCharI(s[p], "s") /\ UrlTail(s, p + 1) > 0
             THEN UrlTail(s, p + 1)
             ELSE UrlTail(s, p)
    ELSE 0

\* [...text.matchAll(URL_RE)].map(m => m[0]) from position i on: after a match
\* the search goes on where the match ended
RECURSIVE UrlMatchesFrom(_, _)
UrlMatchesFrom(s, i) ==
    IF i > Len(s) THEN <<>>
    ELSE IF UrlEnd(s, i) > 0
         THEN <<SubSeq(s, i, UrlEnd(s, i) - 1)>> \o UrlMatchesFrom(s, UrlEnd(s, i))
         ELSE UrlMatchesFrom(s, i + 1)

UrlMatches(s) == UrlMatchesFrom(s, 1)

DedupKeyExact(u) == u

\* const k = u.toLowerCase()
DedupKey(u) == ToLowerCase(u)

\* urls.filter(...) from the k-th url on, with the set seen so far
RECURSIVE DedupFrom(_, _, _)
DedupFrom(urls, k, seen) ==
    IF k > Len(urls) THEN <<>>
    ELSE IF DedupKey(urls[k]) \in seen THEN DedupFrom(urls, k + 1, seen)
    ELSE <<urls[k]>> \o DedupFrom(urls, k + 1, seen \cup {DedupKey(urls[k])})

extractConnectionsFromBio(s) ==
    [found |-> FoundFrom(s, 1), urls |-> DedupFrom(UrlMatches(s), 1, {})]

-----------------------------------------------------------------------------
(* The /check handlers *)

\* the values the handler tests with if (x), !x and x || y are strings or
\* undefined: the empty string and undefined are falsy
Truthy(v) == v # Undefined /\ v # <<>>

\* a || b
OrElse(a, b) == IF Truthy(a) THEN a ELSE b

\* what an outbound call settles with: kind is "ok" (a 2xx response), "error"
\* (a response with another status) or "timeout" (no response), and "pending"
\* while the call is in flight
Outcome(kind, status, data) == [kind |-> kind, status |-> status, data |-> data]
Pending == Outcome("pending", 0, Undefined)

\* what an awaited function settles with
Returned(v) == [thrown |-> FALSE, value |-> v]
Thrown(message) == [thrown |-> TRUE, value |-> message]

NoLocals ==
    [username |-> Undefined, userId |-> Undefined, bio |-> Undefined,
     resolvedName |-> Undefined, parsedBio |-> Undefined, connections |-> Undefined]

\* the rolimonsUrl block: an id found in rolimonsUrl replaces userId, a name
\* found in it is used when no username was given
RequestTargetKeepsUserId(q) ==
    LET parsed == IF Truthy(q.rolimonsUrl) THEN parseRolimonsTarget(q.rolimonsUrl)
                  ELSE [userId |-> Undefined, username |-> Undefined]
    IN  [userId |-> IF Truthy(parsed.userId) /\ ~Truthy(q.userId)
                    THEN parsed.userId ELSE q.userId,
         username |-> IF Truthy(parsed.username) /\ ~Truthy(q.username)
                      THEN parsed.username ELSE q.username]

RequestTarget(q) ==
    LET parsed == IF Truthy(q.rolimonsUrl) THEN parseRolimonsTarget(q.rolimonsUrl)
                  ELSE [userId |-> Undefined, username |-> Undefined]
    IN  [userId |-> IF Truthy(parsed.userId) THEN parsed.userId ELSE q.userId,
         username |-> IF Truthy(parsed.username) /\ ~Truthy(q.username)
                      THEN parsed.username ELSE q.username]

MissingTargetMessage(method) ==
    IF method = "GET" THEN "Provide ?username=NAME or ?userId=ID or ?rolimonsUrl="
    ELSE "Provide username, userId, or rolimonsUrl"

\* the message of the error axios rejects with
AxiosMessage(outcome) ==
    IF outcome.kind = "timeout" THEN <<"timeout exceeded">>
    ELSE <<"Request failed with status code", outcome.status>>

usernameToIdSettleUnchecked(outcome, username) ==
    IF outcome.kind # "ok" THEN Thrown(AxiosMessage(outcome))
    ELSE Returned(outcome.data)

\* usernameToId once axios.post has settled; outcome.data is data?.data?.[0]?.id
usernameToIdSettle(outcome, username) ==
    IF outcome.kind # "ok" THEN Thrown(AxiosMessage(outcome))
    ELSE IF ~Truthy(outcome.data) THEN Thrown(<<"Username not found:", username>>)
    ELSE Returned(outcome.data)

\* getUserInfo once axios.get has settled
getUserInfoSettle(outcome) ==
    IF outcome.kind # "ok" THEN Thrown(AxiosMessage(outcome))
    ELSE Returned(outcome.data)

getConnectionsSettleUncaught(outcome) ==
    IF outcome.kind # "ok" THEN Thrown(AxiosMessage(outcome))
    ELSE IF ~outcome.data.isArray THEN Returned(<<>>)
    ELSE Returned(outcome.data.items)

\* getConnections once axios.get has settled: the try block and its catch
getConnectionsSettle(outcome) ==
    IF outcome.kind # "ok" THEN Returned(<<>>)
    ELSE IF ~outcome.data.isArray THEN Returned(<<>>)
    ELSE Returned(outcome.data.items)

sendDiscordEmbedSettleUncaught(outcome) ==
    IF outcome.kind # "ok" THEN Thrown(AxiosMessage(outcome)) ELSE Returned(Undefined)

\* sendDiscordEmbed once axios.post has settled: the try block and its catch
sendDiscordEmbedSettle(outcome) == Returned(Undefined)

CookieNeverMissing == FALSE

\* if (!ROBLOX_COOKIE)
CookieMissing == ~ROBLOX_COOKIE

\* if (!WEBHOOK_URL) return
WebhookMissing == ~WEBHOOK_URL

MaxEmbedUrls == 10

\* the embed posted to the webhook: the fields in the order pushed. The values
\* are kept as the data they are rendered from; the rendering to text and its
\* cut at 1024 characters are not modelled.
Embed(l) ==
    << [name |-> "User", value |-> <<l.resolvedName, l.userId>>],
       [name |-> "Bio length", value |-> Len(l.bio)] >>
    \o (IF Len(l.parsedBio.found) > 0
        THEN << [name |-> "Parsed Handles (Bio)", value |-> l.parsedBio.found] >>
        ELSE <<>>)
    \o (IF Len(l.parsedBio.urls) > 0
        THEN << [name |-> "URLs in Bio",
                 value |-> SubSeq(l.parsedBio.urls, 1,
                                  Smaller(Len(l.parsedBio.urls), MaxEmbedUrls))] >>
        ELSE <<>>)
    \o (IF Len(l.connections) > 0
        THEN << [name |-> "Roblox Connections (API)",
                 value |-> [i \in 1..Len(l.connections) |->
                               <<OrElse(l.connections[i].type,
                                        OrElse(l.connections[i].platform, <<"Unknown">>)),
                                 OrElse(l.connections[i].url, <<"N/A">>)>>]] >>
        ELSE << [name |-> "Roblox Connections (API)",
                 value |-> "None or not visible to this account."] >>)

\* the body of res.json({ userId, username: resolvedName, bio, parsed, connections })
SuccessBody(l) ==
    [userId |-> l.userId, username |-> l.resolvedName, bio |-> l.bio,
     parsed |-> l.parsedBio, connections |-> l.connections]

\* the handler's state: where it waits, its locals, the calls it made and the
\* responses it sent
Handler == [pc |-> pc, loc |-> loc, calls |-> calls, responses |-> responses]

\* an outbound call is made and the handler awaits it
Call(st, api, arg) ==
    [st EXCEPT !.calls = Append(@, [api |-> api, arg |-> arg, outcome |-> Pending]),
               !.pc = api]

\* the call awaited settles
Settle(st, outcome) == [st EXCEPT !.calls[Len(st.calls)].outcome = outcome]

\* res.status(status).json(body), after which the handler is finished
Respond(st, status, body) ==
    [st EXCEPT !.responses = Append(@, [status |-> status, body |-> body]),
               !.pc = "done"]

\* catch (e) { res.status(500).json({ error: e.message }) }
Catch(st, message) == Respond(st, 500, [error |-> message])

NextStageSkipsNotification(stage) ==
    CASE stage = "usernameToId" -> "getUserInfo"
      [] stage = "getUserInfo" -> "getConnections"
      [] stage = "getConnections" -> "respond"
      [] stage = "sendDiscordEmbed" -> "respond"

\* the order of the awaited steps in the try block
NextStage(stage) ==
    CASE stage = "usernameToId" -> "getUserInfo"
      [] stage = "getUserInfo" -> "getConnections"
      [] stage = "getConnections" -> "sendDiscordEmbed"
      [] stage = "sendDiscordEmbed" -> "respond"

\* the handler runs from the start of a stage to its next await or to its
\* response: a stage that needs no call falls through to the next one
RECURSIVE Enter(_, _)
Enter(stage, st) ==
    CASE stage = "usernameToId" -> Call(st, "usernameToId", st.loc.username)
      [] stage = "getUserInfo" -> Call(st, "getUserInfo", st.loc.userId)
      [] stage = "getConnections" ->
            IF CookieMissing
            THEN Enter(NextStage(stage), [st EXCEPT !.loc.connections = <<>>])
            ELSE Call(st, "getConnections", st.loc.userId)
      [] stage = "sendDiscordEmbed" ->
            IF WebhookMissing
            THEN Enter(NextStage(stage), st)
            ELSE Call(st, "sendDiscordEmbed", Embed(st.loc))
      [] stage = "respond" -> Respond(st, 200, SuccessBody(st.loc))

\* the handler from its first line to its first await or response
Start(q) ==
    LET target == RequestTarget(q)
        st == [pc |-> "start", loc |-> [NoLocals EXCEPT !.userId = target.userId,
                                                        !.username = target.username],
               calls |-> <<>>, responses |-> <<>>]
    IN  IF ~Truthy(target.userId)
        THEN IF ~Truthy(target.username)
             THEN Respond(st, 400, [error |-> MissingTargetMessage(q.method)])
             ELSE Enter("usernameToId", st)
        ELSE Enter("getUserInfo", st)

\* the handler from the settling of usernameToId on
AfterUsernameToId(st, outcome) ==
    LET r == usernameToIdSettle(outcome, st.loc.username)
    IN  IF r.thrown THEN Catch(st, r.value)
        ELSE Enter(NextStage("usernameToId"), [st EXCEPT !.loc.userId = r.value])

\* the handler from the settling of getUserInfo on
AfterGetUserInfo(st, outcome) ==
    LET r == getUserInfoSettle(outcome)
    IN  IF r.thrown THEN Catch(st, r.value)
        ELSE LET bio == OrElse(r.value.description, <<>>)
             IN  Enter(NextStage("getUserInfo"),
                       [st EXCEPT !.loc.bio = bio,
                                  !.loc.resolvedName =
                                      OrElse(r.value.name,
                                             OrElse(st.loc.username, <<"Unknown">>)),
                                  !.loc.parsedBio = extractConnectionsFromBio(bio)])

\* the handler from the settling of getConnections on
AfterGetConnections(st, outcome) ==
    LET r == getConnectionsSettle(outcome)
    IN  IF r.thrown THEN Catch(st, r.value)
        ELSE Enter(NextStage("getConnections"), [st EXCEPT !.loc.connections = r.value])

\* the handler from the settling of sendDiscordEmbed on
AfterSendDiscordEmbed(st, outcome) ==
    LET r == sendDiscordEmbedSettle(outcome)
    IN  IF r.thrown THEN Catch(st, r.value)
        ELSE Enter(NextStage("sendDiscordEmbed"), st)

Become(st) ==
    /\ pc' = st.pc
    /\ loc' = st.loc
    /\ calls' = st.calls
    /\ responses' = st.responses

(* What the clients and the upstream services may send *)

MaxRequests == 2

Name_bob == <<"b", "o", "b">>
Name_Bob == <<"B", "o", "b">>
Id_7 == <<"7">>
Id_42 == <<"4", "2">>

Url_player_42 == PlayerMarker \o Id_42
Url_player_al == PlayerMarker \o <<"a", "l">>
Url_player_42_query == PlayerMarker \o Id_42 \o <<"?", "t">>

Methods == {"GET", "POST"}

\* req.query or req.body: each parameter is a string or is not sent (String(x)
\* of a string is the string); a userId sent empty is falsy like one not sent
Requests ==
    [method : Methods,
     username : {Undefined, Name_bob},
     userId : {Undefined, <<>>, Id_7},
     rolimonsUrl : {Undefined, Url_player_42, Url_player_al, Url_player_42_query}]

ResolveOutcomes ==
    {Outcome("ok", 200, Id_7), Outcome("ok", 200, Undefined),
     Outcome("error", 429, Undefined)}

Bio_plain == <<"h", "i">>
Bio_social ==
    <<"i", "g", " ", "b", "o", " ", "h", "t", "t", "p", ":", "/", "/", "a", " ",
      "H", "T", "T", "P", ":", "/", "/", "A">>

\* the profile is the name and the description, each a string or missing
ProfileOutcomes ==
    {Outcome("ok", 200, [name |-> n, description |-> d]) :
        n \in {Undefined, Name_Bob}, d \in {Undefined, Bio_social}}
    \cup {Outcome("ok", 200, [name |-> Name_Bob, description |-> Bio_plain]),
          Outcome("error", 404, Undefined)}

Connection_twitter ==
    [type |-> <<"T", "w">>, platform |-> Undefined, url |-> <<"t", ".", "c", "o">>]
Connection_bare ==
    [type |-> Undefined, platform |-> Undefined, url |-> Undefined]

ConnectionsOutcomes ==
    {Outcome("ok", 200, [isArray |-> TRUE, items |-> <<Connection_twitter, Connection_bare>>]),
     Outcome("ok", 200, [isArray |-> TRUE, items |-> <<>>]),
     Outcome("ok", 200, [isArray |-> FALSE, items |-> <<>>]),
     Outcome("error", 401, Undefined),
     Outcome("error", 403, Undefined),
     Outcome("error", 429, Undefined),
     Outcome("timeout", 0, Undefined)}

WebhookOutcomes ==
    {Outcome("ok", 204, Undefined), Outcome("error", 404, Undefined),
     Outcome("error", 429, Undefined)}

PureIdle ==
    /\ text = <<>>
    /\ result = <<>>
    /\ phase = "none"
    /\ origin = [kind |-> "none"]

Init ==
    /\ WEBHOOK_URL \in BOOLEAN
    /\ ROBLOX_COOKIE \in BOOLEAN
    /\ req = <<>>
    /\ pc = "listening"
    /\ loc = NoLocals
    /\ calls = <<>>
    /\ responses = <<>>
    /\ served = 0
    /\ PureIdle

\* app.get('/check') or app.post('/check') is invoked with a request; the
\* handler runs to its first await or to its response
Receive(q) ==
    /\ pc \in {"listening", "done"}
    /\ served < MaxRequests
    /\ served' = served + 1
    /\ req' = q
    /\ Become(Start(q))
    /\ UNCHANGED <<WEBHOOK_URL, ROBLOX_COOKIE, pureVars>>

UsernameToIdReturns(outcome) ==
    /\ pc = "usernameToId"
    /\ Become(AfterUsernameToId(Settle(Handler, outcome), outcome))
    /\ UNCHANGED <<WEBHOOK_URL, ROBLOX_COOKIE, req, served, pureVars>>

GetUserInfoReturns(outcome) ==
    /\ pc = "getUserInfo"
    /\ Become(AfterGetUserInfo(Settle(Handler, outcome), outcome))
    /\ UNCHANGED <<WEBHOOK_URL, ROBLOX_COOKIE, req, served, pureVars>>

GetConnectionsReturns(outcome) ==
    /\ pc = "getConnections"
    /\ Become(AfterGetConnections(Settle(Handler, outcome), outcome))
    /\ UNCHANGED <<WEBHOOK_URL, ROBLOX_COOKIE, req, served, pureVars>>

SendDiscordEmbedReturns(outcome) ==
    /\ pc = "sendDiscordEmbed"
    /\ Become(AfterSendDiscordEmbed(Settle(Handler, outcome), outcome))
    /\ UNCHANGED <<WEBHOOK_URL, ROBLOX_COOKIE, req, served, pureVars>>

Next ==
    \/ \E q \in Requests : Receive(q)
    \/ \E o \in ResolveOutcomes : UsernameToIdReturns(o)
    \/ \E o \in ProfileOutcomes : GetUserInfoReturns(o)
    \/ \E o \in ConnectionsOutcomes : GetConnectionsReturns(o)
    \/ \E o \in WebhookOutcomes : SendDiscordEmbedReturns(o)

Spec == Init /\ [][Next]_vars

-----------------------------------------------------------------------------
(* Arguments of the pure functions *)

\* all concatenations of at most n pieces
Texts(pieces, n) ==
    {Concat(ps) : ps \in UNION {[1..m -> pieces] : m \in 0..n}}

\* all concatenations of at most n pieces with sep between the pieces
RECURSIVE Joined(_, _, _)
Joined(pieces, sep, n) ==
    IF n = 0 THEN {<<>>}
    ELSE Joined(pieces, sep, n - 1)
         \cup pieces
         \cup {a \o sep \o b : a \in Joined(pieces, sep, n - 1) \ {<<>>}, b \in pieces}

MaxRolimonsPieces == 4
MaxUrlPieces == 3
MaxMentions == 2
MaxKeywordHandleLen == 3

RolimonsHost == <<"r", "o", "l", "i", "m", "o", "n", "s", ".", "c", "o", "m">>

RolimonsPieces ==
    {PlayerMarker, <<"/", "P", "L", "A", "Y", "E", "R", "/">>,
     <<"1">>, <<"2", "3">>, <<"a">>, <<"_">>, <<"?">>, <<"/">>}

RolimonsTexts ==
    {h \o t : h \in {<<>>, RolimonsHost}, t \in Texts(RolimonsPieces, MaxRolimonsPieces)}

Url_a == <<"h", "t", "t", "p", ":", "/", "/", "a">>
Url_A == <<"H", "T", "T", "P", ":", "/", "/", "A">>
Url_b == <<"h", "t", "t", "p", "s", ":", "/", "/", "b">>

\* a URL alone, or followed by a character that ends it; a letter, which
\* lengthens a URL before it and hides one after it; a line feed
UrlPieces ==
    {u \o d : u \in {Url_a, Url_A, Url_b}, d \in {<<>>, <<" ">>, <<")">>}}
    \cup {<<"x">>, <<"\n">>}

UrlTexts == Texts(UrlPieces, MaxUrlPieces)

MentionKeywords == {<<>>, <<"i", "g">>, <<"I", "n", "s", "t", "a">>, <<"x">>}
MentionSeparators == {<<>>, <<":", " ", "@">>}
MentionHandles == {<<"b", "o">>, <<"a", "m", ".">>, <<"x", "9", "z">>}

Mentions ==
    {k \o p \o h : k \in MentionKeywords, p \in MentionSeparators, h \in MentionHandles}

MentionTexts == Joined(Mentions, <<" ">>, MaxMentions)

\* every keyword and alias of every pattern
AllAlts == UNION {Range(p.alts) : p \in Range(SOCIAL_PATTERNS)}

KeywordSeparators == {<<" ">>, <<":">>, <<":", " ">>}
KeywordHandleChars == {"a", "b", "x", "7"}

KeywordHandles ==
    UNION {[1..n -> KeywordHandleChars] : n \in MinHandleLen..MaxKeywordHandleLen}

FlowIdle ==
    /\ WEBHOOK_URL = FALSE
    /\ ROBLOX_COOKIE = FALSE
    /\ req = <<>>
    /\ pc = "none"
    /\ loc = NoLocals
    /\ calls = <<>>
    /\ responses = <<>>
    /\ served = 0

InitBio ==
    /\ text \in UrlTexts \cup MentionTexts
    /\ origin = [kind |-> "text"]
    /\ result = <<>>
    /\ phase = "input"
    /\ FlowIdle

InitKeyword ==
    /\ origin \in [kind : {"keyword"},
                   label : {p.name : p \in Range(SOCIAL_PATTERNS)},
                   keyword : {a : a \in AllAlts},
                   separator : KeywordSeparators,
                   handle : KeywordHandles]
    /\ \E k \in 1..Len(SOCIAL_PATTERNS) :
          /\ SOCIAL_PATTERNS[k].name = origin.label
          /\ origin.keyword \in Range(SOCIAL_PATTERNS[k].alts)
    /\ text = origin.keyword \o origin.separator \o origin.handle
    /\ result = <<>>
    /\ phase = "input"
    /\ FlowIdle

InitRolimons ==
    /\ text \in RolimonsTexts
    /\ origin = [kind |-> "text"]
    /\ result = <<>>
    /\ phase = "input"
    /\ FlowIdle

\* const parsedBio = extractConnectionsFromBio(bio)
Extract ==
    /\ phase = "input"
    /\ result' = extractConnectionsFromBio(text)
    /\ phase' = "returned"
    /\ UNCHANGED <<text, origin, flowVars>>

\* const parsed = parseRolimonsTarget(String(rolimonsUrl))
Parse ==
    /\ phase = "input"
    /\ result' = parseRolimonsTarget(text)
    /\ phase' = "returned"
    /\ UNCHANGED <<text, origin, flowVars>>

NextBio == Extract
NextRolimons == Parse

SpecBio == InitBio /\ [][NextBio]_vars
SpecKeyword == InitKeyword /\ [][NextBio]_vars
SpecRolimons == InitRolimons /\ [][NextRolimons]_vars

-----------------------------------------------------------------------------
(* Properties of extractConnectionsFromBio *)

EqualIgnoringCase(u, v) == ToLowerCase(u) = ToLowerCase(v)

\* the index in cands of the first candidate equal to u ignoring case
FirstOccurrence(cands, u) ==
    CHOOSE k \in 1..Len(cands) :
        /\ EqualIgnoringCase(cands[k], u)
        /\ \A j \in 1..(k - 1) : ~EqualIgnoringCase(cands[j], u)

\* C4: the urls of the result hold no two entries equal ignoring case, every
\* URL candidate of the text is represented, ignoring case, by exactly one
\* entry, each entry is spelled as the first occurrence of it in the text, and
\* the entries are in the order of their first occurrences.
C4_UrlsDeduplicated ==
    phase = "returned" /\ origin.kind = "text" =>
        LET cands == UrlMatches(text)
            urls == result.urls
        IN  /\ \A i, j \in 1..Len(urls) :
                  i # j => ~EqualIgnoringCase(urls[i], urls[j])
            /\ \A k \in 1..Len(cands) :
                  Cardinality({i \in 1..Len(urls) :
                                  EqualIgnoringCase(urls[i], cands[k])}) = 1
            /\ \A i \in 1..Len(urls) :
                  /\ \E k \in 1..Len(cands) : EqualIgnoringCase(cands[k], urls[i])
                  /\ urls[i] = cands[FirstOccurrence(cands, urls[i])]
            /\ \A i, j \in 1..Len(urls) :
                  i < j => FirstOccurrence(cands, urls[i]) < FirstOccurrence(cands, urls[j])

\* a text with the same URL twice in a different case, and a third URL after it
C4_Witness ==
    /\ phase = "returned"
    /\ origin.kind = "text"
    /\ \E j, k, l \in 1..Len(UrlMatches(text)) :
          /\ j < k /\ k < l
          /\ UrlMatches(text)[j] # UrlMatches(text)[k]
          /\ EqualIgnoringCase(UrlMatches(text)[j], UrlMatches(text)[k])
          /\ ~EqualIgnoringCase(UrlMatches(text)[j], UrlMatches(text)[l])
    /\ Len(result.urls) = 2

PatternIndex(name) == CHOOSE k \in 1..Len(SOCIAL_PATTERNS) : SOCIAL_PATTERNS[k].name = name

GapChars == SpaceChars \cup {":", "-", "@"}

\* the characters p .. hs - 1 of s are in the language of \s*[:\-]?\s*@?
\* (without the @? for a pattern that has none)
GapMatches(s, p, hs, pat) ==
    \E a, b, c \in p..hs :
        /\ a <= b /\ b <= c
        /\ \A j \in p..(a - 1) : s[j] \in SpaceChars
        /\ b - a \in {0, 1}
        /\ \A j \in a..(b - 1) : s[j] \in {":", "-"}
        /\ \A j \in b..(c - 1) : s[j] \in SpaceChars
        /\ hs - c \in (IF pat.at THEN {0, 1} ELSE {0})
        /\ \A j \in c..(hs - 1) : s[j] = "@"

\* every way the pattern matches in s, whatever the order a matcher tries
\* them in: the start of the match, the start and the end of the handle
AllMatches(s, pat) ==
    UNION { UNION { UNION {
        {<<i, hs, he>> :
            he \in {e \in (hs + pat.min)..(hs + RunLen(s, hs, pat.cls)) :
                       e - hs <= pat.max /\ WordBoundary(s, e)}}
        : hs \in {h \in (i + Len(pat.alts[k]))
                        ..(i + Len(pat.alts[k])
                           + RunLen(s, i + Len(pat.alts[k]), GapChars)) :
                     h <= Len(s) /\ GapMatches(s, i + Len(pat.alts[k]), h, pat)} }
        : k \in {a \in 1..Len(pat.alts) : LiteralAt(s, i, pat.alts[a])} }
        : i \in {b \in 1..Len(s) : WordBoundary(s, b)} }

LeftmostStart(ms) == CHOOSE i \in {m[1] : m \in ms} : \A m \in ms : i <= m[1]

\* C6: found holds at most one entry per label, in the order of the pattern
\* list; a label has an entry exactly when its pattern matches somewhere in
\* the text; and the handle of the entry is the handle of a match that starts
\* at the leftmost position where the pattern matches.
C6_FirstMatchPerLabel ==
    phase = "returned" /\ origin.kind = "text" =>
        LET found == result.found
        IN  /\ \A i, j \in 1..Len(found) :
                  i < j => PatternIndex(found[i].type) < PatternIndex(found[j].type)
            /\ \A k \in 1..Len(SOCIAL_PATTERNS) :
                  LET ms == AllMatches(text, SOCIAL_PATTERNS[k])
                      entries == {i \in 1..Len(found) :
                                     found[i].type = SOCIAL_PATTERNS[k].name}
                  IN  /\ Cardinality(entries) <= 1
                      /\ (entries = {}) <=> (ms = {})
                      /\ \A i \in entries :
                            \E m \in ms :
                                /\ m[1] = LeftmostStart(ms)
                                /\ found[i].handle = SubSeq(text, m[2], m[3] - 1)

\* a text where a pattern matches at two places with two different handles,
\* and a text where some pattern does not match at all
C6_Witness ==
    /\ phase = "returned"
    /\ origin.kind = "text"
    /\ \E k \in 1..Len(SOCIAL_PATTERNS) :
          \E m, n \in AllMatches(text, SOCIAL_PATTERNS[k]) :
              /\ m[1] < n[1]
              /\ m[3] < n[1]
              /\ \A o \in AllMatches(text, SOCIAL_PATTERNS[k]) :
                    o[1] = n[1] => SubSeq(text, o[2], o[3] - 1) # SubSeq(text, m[2], m[3] - 1)
    /\ Len(result.found) \in 1..(Len(SOCIAL_PATTERNS) - 1)

\* C5: a text made of a keyword or alias of a label followed by a handle
\* yields exactly one match for that label and no match for another label.
C5_KeywordYieldsOnlyItsLabel ==
    phase = "returned" /\ origin.kind = "keyword" =>
        /\ Cardinality({i \in 1..Len(result.found) :
                           result.found[i].type = origin.label}) = 1
        /\ \A i \in 1..Len(result.found) : result.found[i].type = origin.label

-----------------------------------------------------------------------------
(* Properties of parseRolimonsTarget *)

\* the positions where the path marker stands, ignoring case
MarkerPositions(s) == {i \in 1..Len(s) : LiteralAt(s, i, PlayerMarker)}

\* the path segment after the marker at i: up to the next slash, the query,
\* the fragment or the end
SegmentAfter(s, i) ==
    LET p == i + Len(PlayerMarker)
    IN  Slice(s, p, RunLen(s, p, Range(s) \ {"/", "?", "#"}))

IsNumeric(seg) == seg # <<>> /\ \A j \in 1..Len(seg) : seg[j] \in Digits

FirstOf(ps) == CHOOSE i \in ps : \A j \in ps : i <= j

\* C7: a numeric segment after the marker is returned as the userId; a
\* non-numeric segment is returned as the username instead; never both; and
\* neither when the marker is absent.
C7_SegmentIsReturned ==
    phase = "returned" =>
        LET numeric == {i \in MarkerPositions(text) : IsNumeric(SegmentAfter(text, i))}
            other == {i \in MarkerPositions(text) :
                         SegmentAfter(text, i) # <<>> /\ ~IsNumeric(SegmentAfter(text, i))}
        IN  /\ numeric # {} =>
                  /\ result.userId = SegmentAfter(text, FirstOf(numeric))
                  /\ result.username = Undefined
            /\ numeric = {} /\ other # {} =>
                  /\ result.username = SegmentAfter(text, FirstOf(other))
                  /\ result.userId = Undefined
            /\ result.userId = Undefined \/ result.username = Undefined
            /\ MarkerPositions(text) = {} =>
                  result.userId = Undefined /\ result.username = Undefined

-----------------------------------------------------------------------------
(* Properties of the /check handlers *)

CallsTo(api) == {i \in 1..Len(calls) : calls[i].api = api}

IsSuccessResponse(r) == r.status = 200 /\ DOMAIN r.body = DOMAIN SuccessBody(NoLocals)
IsErrorResponse(r) == r.status >= 400 /\ DOMAIN r.body = {"error"}

\* the private-connections call failed: a 401, 403 or 429, a timeout, or a
\* body that is no array
ConnectionsCallFailed ==
    \E i \in CallsTo("getConnections") :
        \/ calls[i].outcome.kind \in {"error", "timeout"}
        \/ calls[i].outcome.kind = "ok" /\ ~calls[i].outcome.data.isArray

\* C1: once the private-connections call of a request has failed, the request
\* sends no error response, and when it ends it has sent the success JSON
\* with the empty list as its connections.
C1_ConnectionsFailureIsSwallowed ==
    ConnectionsCallFailed =>
        /\ \A i \in 1..Len(responses) : IsSuccessResponse(responses[i])
        /\ pc \in {"sendDiscordEmbed", "done"}
        /\ pc = "done" =>
              /\ Len(responses) = 1
              /\ responses[1].body.connections = <<>>

C1_Witness ==
    /\ ConnectionsCallFailed
    /\ pc = "done"
    /\ \E i \in CallsTo("getConnections") : calls[i].outcome.kind = "timeout"

WebhookCallFailed ==
    \E i \in CallsTo("sendDiscordEmbed") : calls[i].outcome.kind \in {"error", "timeout"}

\* C2: once the webhook call of a request has failed, the request has ended
\* with the success JSON made of the userId, the name, the bio, the parsed bio
\* and the connections the handler held when it made the call.
C2_WebhookFailureIsIgnored ==
    WebhookCallFailed =>
        /\ pc = "done"
        /\ responses = << [status |-> 200, body |-> SuccessBody(loc)] >>

C2_Witness ==
    /\ WebhookCallFailed
    /\ pc = "done"
    /\ Len(responses[1].body.connections) > 0
    /\ Len(responses[1].body.parsed.found) > 0

\* the username-resolution call failed or brought no id, or the profile call
\* failed
ResolutionOrProfileFailed ==
    \/ \E i \in CallsTo("usernameToId") :
          \/ calls[i].outcome.kind \in {"error", "timeout"}
          \/ calls[i].outcome.kind = "ok" /\ ~Truthy(calls[i].outcome.data)
    \/ \E i \in CallsTo("getUserInfo") : calls[i].outcome.kind \in {"error", "timeout"}

\* C3: once the username-resolution call or the profile call of a request has
\* failed, the request has ended with one error response of status 4xx or 5xx,
\* and it has made no private-connections call and no webhook call.
C3_EarlyFailureAborts ==
    ResolutionOrProfileFailed =>
        /\ pc = "done"
        /\ Len(responses) = 1
        /\ IsErrorResponse(responses[1])
        /\ CallsTo("getConnections") = {}
        /\ CallsTo("sendDiscordEmbed") = {}
        /\ calls[Len(calls)].outcome.kind # "ok" \/ ~Truthy(calls[Len(calls)].outcome.data)

C3_Witness ==
    /\ pc = "done"
    /\ \E i \in CallsTo("usernameToId") :
          calls[i].outcome.kind = "ok" /\ ~Truthy(calls[i].outcome.data)
    /\ WEBHOOK_URL
    /\ ROBLOX_COOKIE

ProfileFetched ==
    \E i \in CallsTo("getUserInfo") : calls[i].outcome.kind = "ok"

\* C8: with the session credential unset no private-connections call is made
\* and the connections are the empty list; with the webhook endpoint unset no
\* webhook call is made; and in both cases a request whose profile was fetched
\* ends with the success JSON.
C8_MissingConfigurationFailsOpen ==
    /\ ~ROBLOX_COOKIE =>
          /\ CallsTo("getConnections") = {}
          /\ ProfileFetched => loc.connections = <<>>
          /\ ProfileFetched /\ pc = "done" =>
                /\ Len(responses) = 1
                /\ IsSuccessResponse(responses[1])
                /\ responses[1].body.connections = <<>>
    /\ ~WEBHOOK_URL =>
          /\ CallsTo("sendDiscordEmbed") = {}
          /\ ProfileFetched /\ pc = "done" =>
                /\ Len(responses) = 1
                /\ IsSuccessResponse(responses[1])
    /\ (~ROBLOX_COOKIE /\ ~WEBHOOK_URL) /\ ProfileFetched => pc = "done"

C8_Witness ==
    /\ ~ROBLOX_COOKIE
    /\ ~WEBHOOK_URL
    /\ ProfileFetched
    /\ CallsTo("usernameToId") # {}
    /\ pc = "done"

StageRank(api) ==
    CASE api = "usernameToId" -> 1
      [] api = "getUserInfo" -> 2
      [] api = "getConnections" -> 3
      [] api = "sendDiscordEmbed" -> 4

\* C9: within one request the outbound calls are made at most once each and
\* in the order resolution, profile, connections, webhook; only the last call
\* made can be in flight; no response is sent while the handler runs and
\* exactly one has been sent when it has ended; and a success response is
\* sent only when the notification step is over: no call is in flight, and
\* with the webhook endpoint set the webhook call was made and has settled.
C9_OneOrderedPass ==
    /\ \A i, j \in 1..Len(calls) :
          i < j => /\ StageRank(calls[i].api) < StageRank(calls[j].api)
                   /\ calls[i].outcome.kind # "pending"
    /\ pc \in {"listening", "done"} \/ (Len(calls) > 0 /\ calls[Len(calls)].api = pc
                                        /\ calls[Len(calls)].outcome.kind = "pending")
    /\ pc = "done" => Len(responses) = 1
    /\ pc # "done" => Len(responses) = 0
    /\ \A r \in 1..Len(responses) :
          IsSuccessResponse(responses[r]) =>
              /\ \A i \in 1..Len(calls) : calls[i].outcome.kind # "pending"
              /\ WEBHOOK_URL => CallsTo("sendDiscordEmbed") # {}
              /\ ProfileFetched

C9_Witness ==
    /\ pc = "done"
    /\ Len(calls) = 4
    /\ IsSuccessResponse(responses[1])
    /\ served = 2

\* what the claim says the request's parameters amount to
ClaimedUserId ==
    IF Truthy(req.rolimonsUrl) /\ IdMatch(req.rolimonsUrl).ok
    THEN IdMatch(req.rolimonsUrl).m1
    ELSE req.userId

ClaimedUsername ==
    IF Truthy(req.username) THEN req.username
    ELSE IF Truthy(req.rolimonsUrl) /\ ~IdMatch(req.rolimonsUrl).ok
            /\ NameMatch(req.rolimonsUrl).ok
    THEN NameMatch(req.rolimonsUrl).m1
    ELSE req.username

\* C10: a userId found in rolimonsUrl overrides the one given, a username
\* found in it is used only when none was given; the resolution call is made
\* only when no userId is available, with the username; with a userId the
\* first call is the profile call for it; and with neither the request is
\* answered 400 with an error object and makes no outbound call.
C10_ResolutionOnlyWithoutUserId ==
    pc # "listening" =>
        /\ CallsTo("usernameToId") # {} =>
              /\ ~Truthy(ClaimedUserId)
              /\ Truthy(ClaimedUsername)
              /\ calls[1].api = "usernameToId"
              /\ calls[1].arg = ClaimedUsername
        /\ Truthy(ClaimedUserId) =>
              /\ calls[1].api = "getUserInfo"
              /\ calls[1].arg = ClaimedUserId
        /\ ~Truthy(ClaimedUserId) /\ Truthy(ClaimedUsername) => calls[1].api = "usernameToId"
        /\ ~Truthy(ClaimedUserId) /\ ~Truthy(ClaimedUsername) =>
              /\ calls = <<>>
              /\ pc = "done"
              /\ Len(responses) = 1
              /\ responses[1].status = 400
              /\ IsErrorResponse(responses[1])

C10_Witness ==
    /\ pc = "done"
    /\ Truthy(req.userId)
    /\ Truthy(req.rolimonsUrl)
    /\ IdMatch(req.rolimonsUrl).ok
    /\ IdMatch(req.rolimonsUrl).m1 # req.userId
    /\ calls[1].arg = IdMatch(req.rolimonsUrl).m1
    /\ IsSuccessResponse(responses[1])

====
